---- MODULE Spec2Model ----
(***************************************************************************)
(* Dispatch core of src/server.js: ride creation, the three-phase offer    *)
(* engine (runRideSearch / runPhase / createOffersForRide), offer polling, *)
(* offer acceptance and driver status updates, over the PostgreSQL tables  *)
(* Driver, RideRequest and RideOffer.                                      *)
(*                                                                         *)
(* Every awaited Prisma call is one step, so handlers interleave where the *)
(* event loop lets them.  prisma.$transaction runs at the database default *)
(* isolation (READ COMMITTED): its reads see whatever is committed when    *)
(* each statement runs, its writes become visible together at commit, and  *)
(* a writer that meets a locked row waits for the commit and then applies  *)
(* its own update.  The reads of the transaction are therefore separate    *)
(* steps and its writes one step at commit.                                *)
(*                                                                         *)
(* Time is whole seconds and every timestamp is kept as the time left      *)
(* until it, 0 once it is reached (the code only ever compares a timestamp *)
(* with the clock): "expiresAt = now + ttl" stores ttl, "expiresAt <= now" *)
(* reads "nothing left", and Elapse lets the clock run to the next instant *)
(* at which something becomes due.  Locations are points on one meridian,  *)
(* measured in km of arc, where the haversine distance is the absolute     *)
(* difference.  res is the HTTP reply of the step just taken; the replies   *)
(* of the offer acceptance stay with its calls in acc.                     *)
(***************************************************************************)
EXTENDS Integers, Sequences, FiniteSets, TLC

\* ---------------------------------------------------------------- bounds
NumDrivers == 2
NumRides == 2
NumCalls == 2
MaxRequests == 3
MaxSearching == 1

Drivers == 1..NumDrivers
Rides == 1..NumRides
Calls == 1..NumCalls

\* ------------------------------------------------------- nullable columns
NoDriver == 0
NoTime == -1
NoLoc == -1

\* where a driver reports from: the first 3 km from the pickup point (inside
\* the 5 km radius), the others 8 km from it (inside the 10 km radius only)
HomeKm(d) == IF d = 1 THEN 3 ELSE 8
PickupLocs == {NoLoc, 0}

ALLOWED_RIDE_STATUS ==
  {"OPEN", "SEARCHING", "ACCEPTED", "ARRIVING", "IN_PROGRESS", "COMPLETED",
   "CANCELED", "FAILED"}

Availabilities == {"ONLINE", "BUSY", "OFFLINE"}
Terminal == {"COMPLETED", "CANCELED", "FAILED"}

VARIABLES driver, rideRequest, rideOffer, matcher, acc, requests, res

vars == <<driver, rideRequest, rideOffer, matcher, acc, requests, res>>

\* ------------------------------------------------------------ pure helpers
Abs(x) == IF x < 0 THEN 0 - x ELSE x

distanceKm(lat1, lat2) == Abs(lat2 - lat1)

radiusKmOf(phase) == IF phase = 3 THEN 10 ELSE 5

ttlSecondsOf(phase) == IF phase = 2 THEN 7 ELSE IF phase = 3 THEN 12 ELSE 15

OfferIds == 1..Len(rideOffer)

NoRide ==
  [status |-> "NONE", driverId |-> NoDriver, phase |-> 1, searchRadiusKm |-> 5,
   expiresAt |-> NoTime, pickupLat |-> NoLoc]

\* cb: the step runs inside a phase-end callback (its try/catch, line 506)
IdleMatcher ==
  [pc |-> "idle", phase |-> 1, chosen |-> {}, count |-> 0,
   expiresAt |-> NoTime, due |-> NoTime, cb |-> FALSE]

IdleCall ==
  [pc |-> "idle", driverId |-> NoDriver, offerId |-> 0, result |-> "none"]

\* res is the reply sent by the step just taken; the replies of the offer
\* acceptance are kept with its calls in acc
NoResponse == [route |-> "none", code |-> 0]

\* a step that sends no reply
Silent == res' = NoResponse

\* updateMany on RideOffer: every row of the where set gets status st
OfferUpdateMany(offers, where, st) ==
  [i \in 1..Len(offers) |->
     IF i \in where THEN [offers[i] EXCEPT !.status = st] ELSE offers[i]]

\* expiresAt: { lte: now }
Due(expiresAt) == expiresAt <= 0

\* expireOldOffers without the status filter
expireOldOffers_AnyStatus(offers, rideRequestId) ==
  LET hit == {i \in 1..Len(offers) : /\ offers[i].rideRequestId = rideRequestId
                                      /\ Due(offers[i].expiresAt)}
  IN OfferUpdateMany(offers, hit, "EXPIRED")

\* expireOldOffers: SENT offers of the ride with expiresAt <= now -> EXPIRED
expireOldOffers(offers, rideRequestId) ==
  LET hit == {i \in 1..Len(offers) : /\ offers[i].rideRequestId = rideRequestId
                                      /\ offers[i].status = "SENT"
                                      /\ Due(offers[i].expiresAt)}
  IN OfferUpdateMany(offers, hit, "EXPIRED")

\* candidate query of createOffersForRide
Candidates ==
  {d \in Drivers : driver[d].availability = "ONLINE" \/ driver[d].isOnline}

\* createOffersForRide whose filter asks for a location but not a distance
Chosen_AnyDistance(pickupLat, radiusKm) ==
  IF pickupLat # NoLoc
    THEN {d \in Candidates : driver[d].lat # NoLoc}
    ELSE Candidates

\* radius filter of createOffersForRide
Chosen(pickupLat, radiusKm) ==
  IF pickupLat # NoLoc
    THEN {d \in Candidates :
            /\ driver[d].lat # NoLoc
            /\ distanceKm(pickupLat, driver[d].lat) <= radiusKm}
    ELSE Candidates

\* createMany without skipDuplicates on a table without the unique index
SkipDuplicates_Off(offers, rideRequestId, ds) == ds

\* rows createMany really inserts: the unique index on
\* (rideRequestId, driverId) drops the pairs that already exist
SkipDuplicates(offers, rideRequestId, ds) ==
  {d \in ds : ~ \E i \in 1..Len(offers) :
                 /\ offers[i].rideRequestId = rideRequestId
                 /\ offers[i].driverId = d}

Min(S) == CHOOSE x \in S : \A y \in S : x <= y

RECURSIVE CreateMany(_, _, _, _)
CreateMany(offers, rideRequestId, ds, expiresAt) ==
  IF ds = {} THEN offers
  ELSE LET d == Min(ds)
       IN CreateMany(
            Append(offers, [rideRequestId |-> rideRequestId, driverId |-> d,
                            status |-> "SENT", expiresAt |-> expiresAt,
                            acceptedAt |-> NoTime]),
            rideRequestId, ds \ {d}, expiresAt)

\* ------------------------------------------------------------------- Init
Init ==
  /\ driver = [d \in Drivers |->
                 [availability |-> "OFFLINE", isOnline |-> FALSE, lat |-> NoLoc]]
  /\ rideRequest = [r \in Rides |-> NoRide]
  /\ rideOffer = <<>>
  /\ matcher = [r \in Rides |-> IdleMatcher]
  /\ acc = [c \in Calls |-> IdleCall]
  /\ requests = 0
  /\ res = NoResponse

\* ------------------------------------------------------------------ clock
\* time left until the next instant at which something becomes due: the
\* expiry of a SENT offer, an armed timer, or an expiresAt that a phase step
\* has computed and not yet written
Waits ==
  {rideOffer[i].expiresAt : i \in {j \in OfferIds : rideOffer[j].status = "SENT"}}
    \cup {matcher[r].due : r \in Rides} \cup {matcher[r].expiresAt : r \in Rides}

Left(t, s) == IF t = NoTime THEN NoTime ELSE IF t > s THEN t - s ELSE 0

\* the clock runs to the next instant at which something becomes due
Elapse ==
  /\ \E s \in Waits :
       /\ s > 0
       /\ \A u \in Waits : u > 0 => s <= u
       /\ rideOffer' = [i \in OfferIds |->
            [rideOffer[i] EXCEPT !.expiresAt = Left(@, s)]]
       /\ rideRequest' = [r \in Rides |->
            [rideRequest[r] EXCEPT !.expiresAt = Left(@, s)]]
       /\ matcher' = [r \in Rides |->
            [matcher[r] EXCEPT !.expiresAt = Left(@, s), !.due = Left(@, s)]]
  /\ UNCHANGED <<driver, acc, requests>>
  /\ Silent

\* one more request of a passenger or driver app is served (offer
\* acceptances have their own limit, NumCalls)
RequestWith(reply) ==
  /\ requests < MaxRequests
  /\ requests' = requests + 1
  /\ res' = reply

Request(route, code) == RequestWith([route |-> route, code |-> code])

\* ------------------------------------------------------- driver registry
\* POST /drivers/online
DriversOnline(d, isOnline) ==
  /\ driver' = [driver EXCEPT ![d].isOnline = isOnline]
  /\ Request("/drivers/online", 200)
  /\ UNCHANGED <<rideRequest, rideOffer, matcher, acc>>

\* nextAvailability of POST /drivers/availability; "none" is the 400 reply
NextAvailability(availability, isOnline) ==
  IF availability # "none" THEN availability
  ELSE IF isOnline # "undefined"
         THEN (IF isOnline = "true" THEN "ONLINE" ELSE "OFFLINE")
         ELSE "none"

\* POST /drivers/availability
DriversAvailability(d, availability, isOnline) ==
  LET nextAvailability == NextAvailability(availability, isOnline)
  IN /\ nextAvailability # "none"
     /\ driver' = [driver EXCEPT ![d].availability = nextAvailability,
                                 ![d].isOnline = (nextAvailability = "ONLINE")]
     /\ Request("/drivers/availability", 200)
     /\ UNCHANGED <<rideRequest, rideOffer, matcher, acc>>

\* POST /drivers/location
DriversLocation(d, lat) ==
  /\ driver' = [driver EXCEPT ![d].lat = lat]
  /\ Request("/drivers/location", 200)
  /\ UNCHANGED <<rideRequest, rideOffer, matcher, acc>>

\* ------------------------------------------------------------ ride create
\* POST /rides/create: inserts the row (ids are serial) and calls
\* runRideSearch -> runPhase(id, 1), which issues its first query at once
CreatedRide(pickupLat) ==
  [status |-> "SEARCHING", driverId |-> NoDriver, phase |-> 1,
   searchRadiusKm |-> 5, expiresAt |-> NoTime, pickupLat |-> pickupLat]

\* the select of the create: the columns of the row sent back
SelectRide(r, row) ==
  [id |-> r, status |-> row.status, phase |-> row.phase,
   searchRadiusKm |-> row.searchRadiusKm, expiresAt |-> row.expiresAt]

\* POST /rides/create that does not start the search
RidesCreate_NoSearch(pickupLat) ==
  /\ Cardinality({q \in Rides : matcher[q].pc # "idle"}) < MaxSearching
  /\ \E r \in Rides :
       /\ rideRequest[r].status = "NONE"
       /\ \A q \in Rides : q < r => rideRequest[q].status # "NONE"
       /\ rideRequest' = [rideRequest EXCEPT ![r] = CreatedRide(pickupLat)]
       /\ RequestWith([route |-> "/rides/create", code |-> 200,
                       ride |-> SelectRide(r, CreatedRide(pickupLat))])
  /\ UNCHANGED <<driver, rideOffer, acc, matcher>>

RidesCreate(pickupLat) ==
  /\ Cardinality({q \in Rides : matcher[q].pc # "idle"}) < MaxSearching
  /\ \E r \in Rides :
       /\ rideRequest[r].status = "NONE"
       /\ \A q \in Rides : q < r => rideRequest[q].status # "NONE"
       /\ rideRequest' = [rideRequest EXCEPT ![r] = CreatedRide(pickupLat)]
       /\ matcher' = [matcher EXCEPT ![r] = [IdleMatcher EXCEPT !.pc = "start"]]
       /\ RequestWith([route |-> "/rides/create", code |-> 200,
                       ride |-> SelectRide(r, CreatedRide(pickupLat))])
  /\ UNCHANGED <<driver, rideOffer, acc>>

\* ------------------------------------------------------ phase engine
\* statuses on which runPhase returns at entry (line 469)
PhaseEntryStop ==
  {"ACCEPTED", "ARRIVING", "IN_PROGRESS", "COMPLETED", "CANCELED", "FAILED"}

\* statuses on which the phase-end callback returns (line 515)
CallbackStop == {"ACCEPTED", "ARRIVING", "IN_PROGRESS", "COMPLETED", "CANCELED"}

\* runPhase lines 459-471: expireOldOffers, then the ride is reloaded and
\* the step returns when it is assigned or past SEARCHING
PhaseStart(r) ==
  /\ matcher[r].pc = "start"
  /\ rideOffer' = expireOldOffers(rideOffer, r)
  /\ matcher' = [matcher EXCEPT ![r] =
       IF \/ rideRequest[r].driverId # NoDriver
          \/ rideRequest[r].status \in PhaseEntryStop
         THEN IdleMatcher
         ELSE [@ EXCEPT !.pc = "query"]]
  /\ UNCHANGED <<driver, rideRequest, acc, requests>>
  /\ Silent

\* runPhase that waits out the TTL of a phase without candidates
PhaseQuery_WaitsWhenEmpty(r) ==
  /\ matcher[r].pc = "query"
  /\ rideRequest' = [rideRequest EXCEPT ![r].phase = matcher[r].phase]
  /\ LET chosen == Chosen(rideRequest[r].pickupLat, radiusKmOf(matcher[r].phase))
     IN matcher' = [matcher EXCEPT ![r] =
          IF chosen # {}
            THEN [@ EXCEPT !.pc = "createMany", !.chosen = chosen,
                           !.expiresAt = ttlSecondsOf(matcher[r].phase)]
            ELSE [IdleMatcher EXCEPT !.pc = "timer", !.phase = matcher[r].phase,
                                     !.due = ttlSecondsOf(matcher[r].phase)]]
  /\ UNCHANGED <<driver, rideOffer, acc, requests>>
  /\ Silent

\* runPhase lines 473-484: the phase is written on the ride; then
\* createOffersForRide lines 398-423: clock reading, candidate query and
\* radius filter; with nobody chosen it returns count 0 without touching the
\* ride and runPhase branches (lines 494-502)
PhaseQuery(r) ==
  /\ matcher[r].pc = "query"
  /\ rideRequest' = [rideRequest EXCEPT ![r].phase = matcher[r].phase]
  /\ LET chosen == Chosen(rideRequest[r].pickupLat, radiusKmOf(matcher[r].phase))
     IN matcher' = [matcher EXCEPT ![r] =
          IF chosen # {}
            THEN [@ EXCEPT !.pc = "createMany", !.chosen = chosen,
                           !.expiresAt = ttlSecondsOf(matcher[r].phase)]
          ELSE IF @.phase < 3
            THEN [IdleMatcher EXCEPT !.pc = "start", !.phase = matcher[r].phase + 1,
                                   !.cb = matcher[r].cb]
            ELSE [IdleMatcher EXCEPT !.pc = "fail", !.phase = 3,
                                     !.cb = matcher[r].cb]]
  /\ UNCHANGED <<driver, rideOffer, acc, requests>>
  /\ Silent

\* runPhase that arms the phase-end timer while the offers are being written
PhaseCreateMany_TimerFirst(r) ==
  /\ matcher[r].pc = "createMany"
  /\ LET fresh == SkipDuplicates(rideOffer, r, matcher[r].chosen)
     IN /\ rideOffer' = CreateMany(rideOffer, r, fresh, matcher[r].expiresAt)
        /\ matcher' = [matcher EXCEPT ![r] =
             [IdleMatcher EXCEPT !.pc = "timer", !.phase = matcher[r].phase,
                                 !.due = ttlSecondsOf(matcher[r].phase)]]
  /\ UNCHANGED <<driver, rideRequest, acc, requests>>
  /\ Silent

\* createOffersForRide lines 426-436: createMany with skipDuplicates
PhaseCreateMany(r) ==
  /\ matcher[r].pc = "createMany"
  /\ LET fresh == SkipDuplicates(rideOffer, r, matcher[r].chosen)
     IN /\ rideOffer' = CreateMany(rideOffer, r, fresh, matcher[r].expiresAt)
        /\ matcher' = [matcher EXCEPT ![r].pc = "update", ![r].chosen = {},
                                      ![r].count = Cardinality(fresh)]
  /\ UNCHANGED <<driver, rideRequest, acc, requests>>
  /\ Silent

\* createOffersForRide lines 439-446: the search fields of the ride; then
\* runPhase lines 494-528: next phase, FAILED, or arm the phase-end timer
PhaseUpdate(r) ==
  /\ matcher[r].pc = "update"
  /\ rideRequest' = [rideRequest EXCEPT
       ![r].status = "SEARCHING",
       ![r].searchRadiusKm = radiusKmOf(matcher[r].phase),
       ![r].expiresAt = matcher[r].expiresAt]
  /\ matcher' = [matcher EXCEPT ![r] =
       IF @.count = 0
         THEN IF @.phase < 3
                THEN [IdleMatcher EXCEPT !.pc = "start", !.phase = matcher[r].phase + 1,
                                   !.cb = matcher[r].cb]
                ELSE [IdleMatcher EXCEPT !.pc = "fail", !.phase = 3,
                                         !.cb = matcher[r].cb]
         ELSE [IdleMatcher EXCEPT !.pc = "timer", !.phase = matcher[r].phase,
                                  !.due = ttlSecondsOf(matcher[r].phase)]]
  /\ UNCHANGED <<driver, rideOffer, acc, requests>>
  /\ Silent

\* a FAILED write after which the search starts over at phase 1
PhaseFail_SearchAgain(r) ==
  /\ matcher[r].pc = "fail"
  /\ rideRequest' = [rideRequest EXCEPT ![r].status = "FAILED",
                                        ![r].expiresAt = NoTime]
  /\ matcher' = [matcher EXCEPT ![r] = [IdleMatcher EXCEPT !.pc = "start"]]
  /\ UNCHANGED <<driver, rideOffer, acc, requests>>
  /\ Silent

\* runPhase lines 497-501 and 520-523: status FAILED, expiresAt null
PhaseFail(r) ==
  /\ matcher[r].pc = "fail"
  /\ rideRequest' = [rideRequest EXCEPT ![r].status = "FAILED",
                                        ![r].expiresAt = NoTime]
  /\ matcher' = [matcher EXCEPT ![r] = IdleMatcher]
  /\ UNCHANGED <<driver, rideOffer, acc, requests>>
  /\ Silent

\* phase-end callback without its guard on the reloaded ride
TimerFire_NoGuard(r) ==
  /\ matcher[r].pc = "timer"
  /\ Due(matcher[r].due)
  /\ rideOffer' = expireOldOffers(rideOffer, r)
  /\ matcher' = [matcher EXCEPT ![r] =
       IF @.phase < 3
         THEN [IdleMatcher EXCEPT !.pc = "start", !.phase = matcher[r].phase + 1,
                                  !.cb = TRUE]
         ELSE [IdleMatcher EXCEPT !.pc = "fail", !.phase = 3, !.cb = TRUE]]
  /\ UNCHANGED <<driver, rideRequest, acc, requests>>
  /\ Silent

\* setTimeout callback, lines 505-524: fires once ttlSeconds have passed;
\* expireOldOffers, reload, return when assigned or past SEARCHING, else
\* runPhase(phase + 1) or FAILED
TimerFire(r) ==
  /\ matcher[r].pc = "timer"
  /\ Due(matcher[r].due)
  /\ rideOffer' = expireOldOffers(rideOffer, r)
  /\ matcher' = [matcher EXCEPT ![r] =
       IF \/ rideRequest[r].driverId # NoDriver
          \/ rideRequest[r].status \in CallbackStop
         THEN IdleMatcher
         ELSE IF @.phase < 3
           THEN [IdleMatcher EXCEPT !.pc = "start", !.phase = matcher[r].phase + 1,
                                   !.cb = TRUE]
           ELSE [IdleMatcher EXCEPT !.pc = "fail", !.phase = 3, !.cb = TRUE]]
  /\ UNCHANGED <<driver, rideRequest, acc, requests>>
  /\ Silent

\* ------------------------------------------------------------ offers
\* take: 20 of GET /drivers/offers
OffersTake == 20

\* the n newest of the rows S (sentAt is the insertion time, so ids ascend
\* with it): orderBy sentAt desc, take n
RECURSIVE Newest(_, _)
Newest(S, n) ==
  IF S = {} \/ n = 0 THEN {}
  ELSE LET i == CHOOSE x \in S : \A y \in S : y <= x
       IN {i} \cup Newest(S \ {i}, n - 1)

\* GET /drivers/offers lines 643-667: the caller's SENT offers with
\* expiresAt > now, newest first, at most 20
OffersFindMany(offers, d) ==
  Newest({i \in 1..Len(offers) : /\ offers[i].driverId = d
                                 /\ offers[i].status = "SENT"
                                 /\ ~Due(offers[i].expiresAt)}, OffersTake)

\* GET /drivers/offers without its expiry sweep
DriversOffers_NoSweep(d) ==
  /\ rideOffer' = rideOffer
  /\ RequestWith([route |-> "/drivers/offers", code |-> 200,
                  offers |-> OffersFindMany(rideOffer, d)])
  /\ UNCHANGED <<driver, rideRequest, matcher, acc>>

\* GET /drivers/offers lines 636-669: the caller's overdue SENT offers
\* become EXPIRED, then the list is read with the same now and returned
DriversOffers(d) ==
  /\ LET hit == {i \in OfferIds : /\ rideOffer[i].driverId = d
                                   /\ rideOffer[i].status = "SENT"
                                   /\ Due(rideOffer[i].expiresAt)}
         swept == OfferUpdateMany(rideOffer, hit, "EXPIRED")
     IN /\ rideOffer' = swept
        /\ RequestWith([route |-> "/drivers/offers", code |-> 200,
                        offers |-> OffersFindMany(swept, d)])
  /\ UNCHANGED <<driver, rideRequest, matcher, acc>>

Finish(c, result) == [acc EXCEPT ![c].pc = "done", ![c].result = result]

\* the offer looked up by id alone, without driverId: req.driverId
AcceptFindOffer_AnyCaller(c, d, offerId) ==
  /\ acc[c].pc = "idle"
  /\ \A b \in Calls : b < c => acc[b].pc # "idle"
  /\ LET call == [pc |-> "done", driverId |-> d, offerId |-> offerId,
                  result |-> "none"]
         found == offerId \in OfferIds
     IN acc' = [acc EXCEPT ![c] =
          IF ~found THEN [call EXCEPT !.result = "404"]
          ELSE IF rideOffer[offerId].status # "SENT"
            THEN [call EXCEPT !.result = "409 not active"]
          ELSE IF Due(rideOffer[offerId].expiresAt)
            THEN [call EXCEPT !.pc = "tx_expire"]
          ELSE [call EXCEPT !.pc = "tx_ride"]]
  /\ UNCHANGED <<driver, rideRequest, rideOffer, matcher, requests>>
  /\ Silent

\* accept lines 681-695: offer lookup by (id, driverId),
\* status check, expiry check
AcceptFindOffer(c, d, offerId) ==
  /\ acc[c].pc = "idle"
  /\ \A b \in Calls : b < c => acc[b].pc # "idle"
  /\ LET call == [pc |-> "done", driverId |-> d, offerId |-> offerId,
                  result |-> "none"]
         found == offerId \in OfferIds /\ rideOffer[offerId].driverId = d
     IN acc' = [acc EXCEPT ![c] =
          IF ~found THEN [call EXCEPT !.result = "404"]
          ELSE IF rideOffer[offerId].status # "SENT"
            THEN [call EXCEPT !.result = "409 not active"]
          ELSE IF Due(rideOffer[offerId].expiresAt)
            THEN [call EXCEPT !.pc = "tx_expire"]
          ELSE [call EXCEPT !.pc = "tx_ride"]]
  /\ UNCHANGED <<driver, rideRequest, rideOffer, matcher, requests>>
  /\ Silent

\* the expired branch leaving the transaction by an exception: the EXPIRED
\* update is rolled back
AcceptExpire_RolledBack(c) ==
  /\ acc[c].pc = "tx_expire"
  /\ acc' = Finish(c, "409 expired")
  /\ UNCHANGED <<driver, rideRequest, rideOffer, matcher, requests>>
  /\ Silent

\* accept lines 692-695: the overdue offer is written EXPIRED and committed
AcceptExpire(c) ==
  /\ acc[c].pc = "tx_expire"
  /\ rideOffer' = [rideOffer EXCEPT ![acc[c].offerId].status = "EXPIRED"]
  /\ acc' = Finish(c, "409 expired")
  /\ UNCHANGED <<driver, rideRequest, matcher, requests>>
  /\ Silent

\* accept lines 697-703: ride lookup, "already taken" and terminal checks
AcceptFindRide(c) ==
  /\ acc[c].pc = "tx_ride"
  /\ LET ride == rideRequest[rideOffer[acc[c].offerId].rideRequestId]
     IN acc' =
          IF ride.driverId # NoDriver THEN Finish(c, "409 taken")
          ELSE IF ride.status \in {"FAILED", "CANCELED", "COMPLETED"}
            THEN Finish(c, "409 not dispatchable")
          ELSE [acc EXCEPT ![c].pc = "tx_write"]
  /\ UNCHANGED <<driver, rideRequest, rideOffer, matcher, requests>>
  /\ Silent

\* the accept transaction without its driver update (lines 724-727)
AcceptWrite_DriverUntouched(c) ==
  /\ acc[c].pc = "tx_write"
  /\ LET offerId == acc[c].offerId
         d == acc[c].driverId
         r == rideOffer[offerId].rideRequestId
         now == 0
         accepted == [rideOffer EXCEPT ![offerId].status = "ACCEPTED",
                                       ![offerId].acceptedAt = now]
         others == {i \in OfferIds : /\ accepted[i].rideRequestId = r
                                      /\ accepted[i].status = "SENT"}
     IN /\ rideRequest' = [rideRequest EXCEPT ![r].driverId = d,
                                              ![r].status = "ACCEPTED",
                                              ![r].expiresAt = NoTime]
        /\ rideOffer' = OfferUpdateMany(accepted, others, "EXPIRED")
  /\ acc' = Finish(c, "200")
  /\ UNCHANGED <<driver, matcher, requests>>
  /\ Silent

\* accept lines 705-735: ride assigned, this offer ACCEPTED at the handler's
\* now (line 681, an instant that is reached: nothing left until it), the
\* ride's remaining SENT offers EXPIRED, driver BUSY; commit
AcceptWrite(c) ==
  /\ acc[c].pc = "tx_write"
  /\ LET offerId == acc[c].offerId
         d == acc[c].driverId
         r == rideOffer[offerId].rideRequestId
         now == 0
         accepted == [rideOffer EXCEPT ![offerId].status = "ACCEPTED",
                                       ![offerId].acceptedAt = now]
         others == {i \in OfferIds : /\ accepted[i].rideRequestId = r
                                      /\ accepted[i].status = "SENT"}
     IN /\ rideRequest' = [rideRequest EXCEPT ![r].driverId = d,
                                              ![r].status = "ACCEPTED",
                                              ![r].expiresAt = NoTime]
        /\ rideOffer' = OfferUpdateMany(accepted, others, "EXPIRED")
        /\ driver' = [driver EXCEPT ![d].availability = "BUSY",
                                    ![d].isOnline = TRUE]
  /\ acc' = Finish(c, "200")
  /\ UNCHANGED <<matcher, requests>>
  /\ Silent

\* ------------------------------------------------------ driver ride status
\* POST /rides/status with driverId left out of the where of its updateMany
RidesStatus_AnyCaller(d, r, status) ==
  /\ status \in ALLOWED_RIDE_STATUS
  /\ IF rideRequest[r].status # "NONE"
       THEN /\ rideRequest' = [rideRequest EXCEPT ![r].status = status]
            /\ Request("/rides/status", 200)
       ELSE /\ rideRequest' = rideRequest
            /\ Request("/rides/status", 403)
  /\ UNCHANGED <<driver, rideOffer, matcher, acc>>

\* POST /rides/status lines 785-796: updateMany where (id, driverId);
\* count 0 is answered 403, anything else 200
\* POST /rides/status that runs the search again when the driver sets the
\* ride back to SEARCHING
RidesStatus_Redispatch(d, r, status) ==
  /\ status \in ALLOWED_RIDE_STATUS
  /\ IF rideRequest[r].status # "NONE" /\ rideRequest[r].driverId = d
       THEN /\ rideRequest' = [rideRequest EXCEPT ![r].status = status]
            /\ matcher' = IF status = "SEARCHING"
                            THEN [matcher EXCEPT ![r] =
                                    [IdleMatcher EXCEPT !.pc = "start"]]
                            ELSE matcher
            /\ Request("/rides/status", 200)
       ELSE /\ rideRequest' = rideRequest
            /\ matcher' = matcher
            /\ Request("/rides/status", 403)
  /\ UNCHANGED <<driver, rideOffer, acc>>

RidesStatus(d, r, status) ==
  /\ status \in ALLOWED_RIDE_STATUS
  /\ IF rideRequest[r].status # "NONE" /\ rideRequest[r].driverId = d
       THEN /\ rideRequest' = [rideRequest EXCEPT ![r].status = status]
            /\ Request("/rides/status", 200)
       ELSE /\ rideRequest' = rideRequest
            /\ Request("/rides/status", 403)
  /\ UNCHANGED <<driver, rideOffer, matcher, acc>>

\* ------------------------------------------------------------------- Next
Next ==
  \/ Elapse
  \/ \E d \in Drivers, b \in BOOLEAN : DriversOnline(d, b)
  \/ \E d \in Drivers, a \in Availabilities \cup {"none"},
        b \in {"undefined", "true", "false"} : DriversAvailability(d, a, b)
  \/ \E d \in Drivers : DriversLocation(d, HomeKm(d))
  \/ \E p \in PickupLocs : RidesCreate(p)
  \/ \E r \in Rides : PhaseStart(r)
  \/ \E r \in Rides : PhaseQuery(r)
  \/ \E r \in Rides : PhaseCreateMany(r)
  \/ \E r \in Rides : PhaseUpdate(r)
  \/ \E r \in Rides : PhaseFail(r)
  \/ \E r \in Rides : TimerFire(r)
  \/ \E d \in Drivers : DriversOffers(d)
  \/ \E c \in Calls, d \in Drivers, o \in OfferIds :
        AcceptFindOffer(c, d, o)
  \/ \E c \in Calls : AcceptExpire(c)
  \/ \E c \in Calls : AcceptFindRide(c)
  \/ \E c \in Calls : AcceptWrite(c)
  \/ \E d \in Drivers, r \in Rides, s \in ALLOWED_RIDE_STATUS : RidesStatus(d, r, s)

Spec == Init /\ [][Next]_vars

\* ------------------------------------------------------------------ faults
\* an awaited Prisma call of the phase engine rejects: in the run started by
\* /rides/create the rejection ends in the catch of line 580, inside a
\* phase-end callback in the catch of lines 525-527; both only log
StoreError(r) ==
  /\ \/ matcher[r].pc \in {"start", "query", "createMany", "update", "fail"}
     \/ matcher[r].pc = "timer" /\ Due(matcher[r].due)
  /\ matcher' = [matcher EXCEPT ![r] = IdleMatcher]
  /\ UNCHANGED <<driver, rideRequest, rideOffer, acc, requests>>
  /\ Silent

\* the step that fails belongs to a phase-end callback
InCallback(r) == matcher[r].cb \/ matcher[r].pc = "timer"

SpecFault == Init /\ [][Next \/ \E r \in Rides : StoreError(r)]_vars

\* the process is restarted: timers and pending steps are gone, open
\* transactions are rolled back, the tables stay; start-up (lines 815-817)
\* listens and logs
Restart ==
  /\ \E r \in Rides : matcher[r].pc # "idle"
  /\ matcher' = [r \in Rides |-> IdleMatcher]
  /\ acc' = [c \in Calls |->
       IF acc[c].pc \in {"idle", "done"} THEN acc[c]
       ELSE [acc[c] EXCEPT !.pc = "done", !.result = "none"]]
  /\ UNCHANGED <<driver, rideRequest, rideOffer, requests>>
  /\ Silent

SpecCrash == Init /\ [][Next \/ Restart]_vars

\* ------------------------------------------------------------------ claims
Created(r) == rideRequest[r].status # "NONE"

Assigned == {"ACCEPTED", "ARRIVING", "IN_PROGRESS", "COMPLETED"}

AcceptedOffers(r) ==
  {i \in OfferIds : rideOffer[i].rideRequestId = r /\ rideOffer[i].status = "ACCEPTED"}

ActiveRides(d) ==
  {r \in Rides : /\ Created(r)
                 /\ rideRequest[r].driverId = d
                 /\ rideRequest[r].status \notin Terminal}

\* C1: for every ride at most one RideOffer has status ACCEPTED.
C1_AtMostOneAccepted ==
  \A r \in Rides : Cardinality(AcceptedOffers(r)) <= 1

\* the call found its offer SENT and unexpired and went on to the ride
PassedOfferChecks(c) ==
  /\ acc[c].pc = "done"
  /\ acc[c].result \in {"200", "409 taken", "409 not dispatchable"}

\* C2: of two acceptances by different drivers, each of a SENT and unexpired
\* offer of the same ride, exactly one succeeds and the other gets Conflict.
C2_ExactlyOneWins ==
  \A c1, c2 \in Calls :
    ( /\ c1 # c2
      /\ PassedOfferChecks(c1)
      /\ PassedOfferChecks(c2)
      /\ acc[c1].driverId # acc[c2].driverId
      /\ rideOffer[acc[c1].offerId].rideRequestId
           = rideOffer[acc[c2].offerId].rideRequestId )
    => \/ acc[c1].result = "200" /\ acc[c2].result # "200"
       \/ acc[c2].result = "200" /\ acc[c1].result # "200"

\* C3: every driver is the assigned driver of at most one ride that is not
\* COMPLETED, CANCELED or FAILED.
C3_OneActiveRidePerDriver ==
  \A d \in Drivers : Cardinality(ActiveRides(d)) <= 1

\* C4: if an offer of a ride is ACCEPTED, the ride is assigned to that
\* offer's driver and its status is none of OPEN, SEARCHING, FAILED.
C4_AcceptedOfferMeansAssigned ==
  \A i \in OfferIds :
    rideOffer[i].status = "ACCEPTED" =>
      /\ rideRequest[rideOffer[i].rideRequestId].driverId = rideOffer[i].driverId
      /\ rideRequest[rideOffer[i].rideRequestId].status
           \notin {"OPEN", "SEARCHING", "FAILED"}

\* C5: a ride has an assigned driver iff its status is ACCEPTED, ARRIVING,
\* IN_PROGRESS or COMPLETED, except that a CANCELED ride may keep its driver;
\* an OPEN, SEARCHING or FAILED ride has none.
C5_DriverIffAssignedStatus ==
  \A r \in Rides :
    Created(r) =>
      /\ rideRequest[r].status \in Assigned => rideRequest[r].driverId # NoDriver
      /\ rideRequest[r].driverId # NoDriver =>
           rideRequest[r].status \in Assigned \cup {"CANCELED"}

\* C6: a ride in ACCEPTED, ARRIVING, IN_PROGRESS or COMPLETED has exactly one
\* ACCEPTED offer, and that offer's driver is the ride's assigned driver.
C6_ExactlyOneAcceptedOffer ==
  \A r \in Rides :
    rideRequest[r].status \in Assigned =>
      /\ Cardinality(AcceptedOffers(r)) = 1
      /\ \A i \in AcceptedOffers(r) : rideOffer[i].driverId = rideRequest[r].driverId

\* C7: without faults every ride leaves SEARCHING for good: once the phase
\* engine has nothing left to do for a ride (no step pending, no timer
\* armed), the ride is not SEARCHING.
C7_SearchEnds ==
  \A r \in Rides :
    (Created(r) /\ matcher[r].pc = "idle") => rideRequest[r].status # "SEARCHING"

\* C8: a Store error inside a phase-end callback counts as "no winner": the
\* engine still goes on to the next phase or marks the ride FAILED.
C8_ErrorIsNoWinner ==
  [][\A r \in Rides :
       (InCallback(r) /\ StoreError(r)) =>
         (matcher'[r].pc # "idle" \/ rideRequest'[r].status = "FAILED")]_vars

\* C9: after a restart every SEARCHING ride with a phaseExpiresAt is taken up
\* again: its phase end is handled when phaseExpiresAt <= now, its timer is
\* re-armed when phaseExpiresAt > now.
C9_RecoveredAfterRestart ==
  [][Restart =>
       \A r \in Rides :
         (rideRequest[r].status = "SEARCHING" /\ rideRequest[r].expiresAt # NoTime) =>
           IF Due(rideRequest[r].expiresAt)
             THEN matcher'[r].pc \in {"start", "fail"}
             ELSE matcher'[r].pc = "timer"]_vars

\* C10: once a ride is COMPLETED, CANCELED or FAILED, its status, assigned
\* driver and phaseExpiresAt never change again.
C10_TerminalFrozen ==
  [][\A r \in Rides :
       rideRequest[r].status \in Terminal =>
         /\ rideRequest'[r].status = rideRequest[r].status
         /\ rideRequest'[r].driverId = rideRequest[r].driverId
         /\ (rideRequest'[r].expiresAt = rideRequest[r].expiresAt \/ Elapse)]_vars

\* ------------------------------------------- states the claims do not allow
\* C1: two transactions that both read the ride unassigned have committed;
\* two offers of one ride are ACCEPTED
C1_TwoAcceptedOffers ==
  \E r \in Rides : Cardinality(AcceptedOffers(r)) = 2

\* C2: two drivers accepted their own offers of the same ride and both calls
\* answered 200
C2_BothSucceed ==
  \E c1, c2 \in Calls :
    /\ acc[c1].result = "200" /\ acc[c2].result = "200"
    /\ acc[c1].driverId # acc[c2].driverId
    /\ acc[c1].offerId # acc[c2].offerId
    /\ rideOffer[acc[c1].offerId].rideRequestId
         = rideOffer[acc[c2].offerId].rideRequestId

\* C3: a BUSY driver was offered and accepted a second ride
C3_BusyDriverTwoRides ==
  \E d \in Drivers :
    /\ driver[d].availability = "BUSY"
    /\ \A r \in Rides : rideRequest[r].status = "ACCEPTED" /\ rideRequest[r].driverId = d

\* C4: the matcher's search update landed after the acceptance; the offer is
\* ACCEPTED and the ride SEARCHING
C4_AcceptedOfferSearchingRide ==
  \E i \in OfferIds :
    /\ rideOffer[i].status = "ACCEPTED"
    /\ rideRequest[rideOffer[i].rideRequestId].status = "SEARCHING"
    /\ rideRequest[rideOffer[i].rideRequestId].driverId = rideOffer[i].driverId

\* C5: a SEARCHING ride with an assigned driver and a phase-end timer armed
C5_SearchingWithDriver ==
  \E r \in Rides :
    /\ rideRequest[r].status = "SEARCHING"
    /\ rideRequest[r].driverId # NoDriver
    /\ matcher[r].pc = "timer"

\* C6: an ACCEPTED ride with two ACCEPTED offers, one of a driver who is not
\* the assigned one
C6_AssignedRideTwoAccepted ==
  \E r \in Rides :
    /\ rideRequest[r].status \in Assigned
    /\ \E i \in AcceptedOffers(r) : rideOffer[i].driverId # rideRequest[r].driverId
    /\ \E i \in AcceptedOffers(r) : rideOffer[i].driverId = rideRequest[r].driverId

\* C7: the phase-end callback saw the assigned driver and stopped; the ride is
\* SEARCHING and nothing of the phase engine is pending for it
C7_SearchingForGood ==
  \E r \in Rides :
    /\ rideRequest[r].status = "SEARCHING"
    /\ rideRequest[r].driverId # NoDriver
    /\ matcher[r].pc = "idle"
    /\ \E c \in Calls : acc[c].result = "200"

\* C8: an unassigned SEARCHING ride whose phase has run out, with no timer
\* and no step pending
C8_StrandedAfterError ==
  \E r \in Rides :
    /\ rideRequest[r].status = "SEARCHING"
    /\ rideRequest[r].driverId = NoDriver
    /\ rideRequest[r].expiresAt = 0
    /\ matcher[r].pc = "idle"

\* C9: an unassigned SEARCHING ride whose phase is still running, with no
\* timer armed
C9_NoTimerAfterRestart ==
  \E r \in Rides :
    /\ rideRequest[r].status = "SEARCHING"
    /\ rideRequest[r].driverId = NoDriver
    /\ rideRequest[r].expiresAt > 0
    /\ matcher[r].pc = "idle"

\* C10: a terminal ride with the matcher's search update still to come
C10_TerminalBeforeUpdate ==
  \E r \in Rides :
    /\ rideRequest[r].status \in Terminal
    /\ rideRequest[r].driverId # NoDriver
    /\ matcher[r].pc = "update"

\* ---------------------------------------------- driver status updates
\* the caller of POST /rides/status is the assigned driver of the ride
Owner(d, r) == Created(r) /\ rideRequest[r].driverId = d

\* C11: a status update by the assigned driver of a COMPLETED, CANCELED or
\* FAILED ride is answered Conflict (409) and leaves the ride as it is.
C11_TerminalUpdateRejected ==
  [][\A d \in Drivers, r \in Rides, s \in ALLOWED_RIDE_STATUS :
       (RidesStatus(d, r, s) /\ Owner(d, r) /\ rideRequest[r].status \in Terminal)
         => (res'.code = 409 /\ rideRequest'[r] = rideRequest[r])]_vars

\* C11: a terminal ride that has an assigned driver, with a request of that
\* driver still to come
C11_TerminalWithDriver ==
  \E r \in Rides :
    /\ rideRequest[r].status \in Terminal
    /\ rideRequest[r].driverId # NoDriver
    /\ requests < MaxRequests

\* C12: a status update by the assigned driver changes the ride only along
\* ACCEPTED -> ARRIVING -> IN_PROGRESS -> COMPLETED or from a non-terminal
\* status to CANCELED; any other request is answered Conflict (409) and
\* leaves the ride as it is.
C12_OnlyLegalTransitions ==
  [][\A d \in Drivers, r \in Rides, s \in ALLOWED_RIDE_STATUS :
       LET from == rideRequest[r].status
           legal == \/ from = "ACCEPTED" /\ s = "ARRIVING"
                    \/ from = "ARRIVING" /\ s = "IN_PROGRESS"
                    \/ from = "IN_PROGRESS" /\ s = "COMPLETED"
                    \/ from \notin Terminal /\ s = "CANCELED"
       IN (RidesStatus(d, r, s) /\ Owner(d, r) /\ ~legal)
            => (res'.code = 409 /\ rideRequest'[r] = rideRequest[r])]_vars

\* C12: the step just taken answered a status update with 200 and the ride
\* of an assigned driver is SEARCHING, a status no driver report leads to
C12_DriverSetSearching ==
  /\ res = [route |-> "/rides/status", code |-> 200]
  /\ \E r \in Rides :
       /\ rideRequest[r].status = "SEARCHING"
       /\ rideRequest[r].driverId # NoDriver
       /\ matcher[r].pc = "idle"

\* C13: a status update changes a ride only when the caller is its assigned
\* driver; from any other driver, also for an unassigned ride, it changes
\* nothing and is answered Forbidden (403).
C13_OnlyOwnerUpdates ==
  [][\A d \in Drivers, r \in Rides, s \in ALLOWED_RIDE_STATUS :
       (RidesStatus(d, r, s) /\ ~Owner(d, r))
         => /\ res' = [route |-> "/rides/status", code |-> 403]
            /\ UNCHANGED <<driver, rideRequest, rideOffer, matcher, acc>>]_vars

\* C13: a status update was just answered 403 while a ride exists, assigned
\* to a driver, that the update did not change
C13_ForbiddenAnswered ==
  /\ res = [route |-> "/rides/status", code |-> 403]
  /\ \E r \in Rides : rideRequest[r].status = "ACCEPTED"
                      /\ rideRequest[r].driverId # NoDriver

\* ------------------------------------------------------------ availability
\* C14: a BUSY driver is the assigned driver of at least one ride that is not
\* COMPLETED, CANCELED or FAILED, and an ONLINE or OFFLINE driver of none.
C14_BusyIffActiveRide ==
  \A d \in Drivers :
    driver[d].availability = "BUSY" <=> ActiveRides(d) # {}

\* C14: the driver completed the accepted ride and is still BUSY
C14_BusyAfterCompleted ==
  \E d \in Drivers :
    /\ driver[d].availability = "BUSY"
    /\ ActiveRides(d) = {}
    /\ \E r \in Rides : rideRequest[r].driverId = d /\ rideRequest[r].status = "COMPLETED"

\* C15: a request to go OFFLINE (availability OFFLINE, or isOnline false) of
\* a BUSY driver is answered Conflict (409) and the driver stays BUSY.
C15_BusyCannotGoOffline ==
  [][\A d \in Drivers, a \in Availabilities \cup {"none"},
        b \in {"undefined", "true", "false"} :
       ( /\ DriversAvailability(d, a, b)
         /\ NextAvailability(a, b) = "OFFLINE"
         /\ driver[d].availability = "BUSY" )
       => (res'.code = 409 /\ driver'[d].availability = "BUSY")]_vars

\* C15: the driver of an ACCEPTED ride has just been set OFFLINE on request
C15_OfflineWithAcceptedRide ==
  /\ res = [route |-> "/drivers/availability", code |-> 200]
  /\ \E d \in Drivers :
       /\ driver[d].availability = "OFFLINE"
       /\ \E r \in Rides : rideRequest[r].driverId = d /\ rideRequest[r].status = "ACCEPTED"

\* C16: a driver becomes BUSY only by that driver's successful offer
\* acceptance, never by a set-availability request.
C16_BusyOnlyByAcceptance ==
  [][\A d \in Drivers :
       (driver[d].availability # "BUSY" /\ driver'[d].availability = "BUSY")
         => \E c \in Calls : AcceptWrite(c) /\ acc[c].driverId = d]_vars

\* C16: a set-availability request has just made a driver BUSY who accepted
\* no offer
C16_BusyByRequest ==
  /\ res = [route |-> "/drivers/availability", code |-> 200]
  /\ \E d \in Drivers :
       /\ driver[d].availability = "BUSY"
       /\ \A c \in Calls : ~(acc[c].driverId = d /\ acc[c].result = "200")

\* ------------------------------------------------------------------ offers
\* C17: there is at most one RideOffer for each (rideRequestId, driverId),
\* over all phases of a ride.
C17_OneOfferPerRideAndDriver ==
  \A i, j \in OfferIds :
    (/\ rideOffer[i].rideRequestId = rideOffer[j].rideRequestId
     /\ rideOffer[i].driverId = rideOffer[j].driverId) => i = j

\* C17: the createMany of a later phase has run with only drivers chosen who
\* were offered the ride before, and created nothing
C17_LaterPhaseSkippedAll ==
  \E r \in Rides :
    /\ matcher[r].pc = "update"
    /\ matcher[r].phase > 1
    /\ matcher[r].count = 0
    /\ \E i \in OfferIds : rideOffer[i].rideRequestId = r

\* C18: the step in which an acceptance succeeds (its call is answered 200)
\* leaves the ride assigned to the caller, ACCEPTED, with phaseExpiresAt
\* null, the offer ACCEPTED with acceptedAt = now (an instant reached:
\* nothing left until it), and the caller BUSY.
C18_AcceptEffects ==
  [][\A c \in Calls :
       (acc[c].result # "200" /\ acc'[c].result = "200") =>
         LET o == acc'[c].offerId
             d == acc'[c].driverId
             r == rideOffer[o].rideRequestId
         IN /\ rideRequest'[r].driverId = d
            /\ rideRequest'[r].status = "ACCEPTED"
            /\ rideRequest'[r].expiresAt = NoTime
            /\ rideOffer'[o].status = "ACCEPTED"
            /\ rideOffer'[o].acceptedAt = 0
            /\ driver'[d].availability = "BUSY"]_vars

\* C18: an acceptance has succeeded and nothing has touched its ride, offer
\* and driver since
C18_Accepted ==
  \E c \in Calls :
    /\ acc[c].result = "200"
    /\ rideOffer[acc[c].offerId].status = "ACCEPTED"
    /\ rideOffer[acc[c].offerId].acceptedAt = 0
    /\ rideRequest[rideOffer[acc[c].offerId].rideRequestId].status = "ACCEPTED"
    /\ rideRequest[rideOffer[acc[c].offerId].rideRequestId].driverId = acc[c].driverId
    /\ rideRequest[rideOffer[acc[c].offerId].rideRequestId].expiresAt = NoTime
    /\ driver[acc[c].driverId].availability = "BUSY"

\* the rides for which an acceptance has committed
Committed == {rideOffer[acc[c].offerId].rideRequestId :
                c \in {b \in Calls : acc[b].result = "200"}}

\* C19: once an acceptance for a ride has committed, no RideOffer of that
\* ride is SENT, right after the commit and ever after.
C19_NoSentAfterAccept ==
  \A i \in OfferIds :
    rideOffer[i].rideRequestId \in Committed => rideOffer[i].status # "SENT"

\* C19: a ride with a committed acceptance and its driver assigned has a
\* SENT, unexpired offer out to another driver
C19_SentToPeerAfterAccept ==
  \E i \in OfferIds :
    /\ rideOffer[i].status = "SENT"
    /\ ~Due(rideOffer[i].expiresAt)
    /\ rideOffer[i].rideRequestId \in Committed
    /\ rideRequest[rideOffer[i].rideRequestId].driverId \notin {NoDriver, rideOffer[i].driverId}

\* C20: the step in which an acceptance of an overdue SENT offer is answered
\* Conflict ("expired") commits that offer as EXPIRED and leaves every ride,
\* every other offer, every driver and the phase engine as they are.
C20_ExpiredAccept ==
  [][\A c \in Calls :
       (acc[c].result # "409 expired" /\ acc'[c].result = "409 expired") =>
         /\ rideOffer'[acc'[c].offerId].status = "EXPIRED"
         /\ \A i \in OfferIds : i # acc'[c].offerId => rideOffer'[i] = rideOffer[i]
         /\ UNCHANGED <<rideRequest, driver, matcher>>]_vars

\* C20: an acceptance was answered "expired", its offer is EXPIRED, and the
\* ride is still SEARCHING, unassigned, with its next phase step pending
C20_ExpiredAndSearching ==
  \E c \in Calls :
    /\ acc[c].result = "409 expired"
    /\ rideOffer[acc[c].offerId].status = "EXPIRED"
    /\ LET r == rideOffer[acc[c].offerId].rideRequestId
       IN /\ rideRequest[r].status = "SEARCHING"
          /\ rideRequest[r].driverId = NoDriver
          /\ matcher[r].pc # "idle"

\* ------------------------------------------------- acceptance, rejections
\* the reply of call c is given in this step and is result
Answered(c, result) == acc[c].result # result /\ acc'[c].result = result

\* C21: an acceptance of an offer that is not SENT is answered Conflict and
\* changes no offer, ride or driver; and of the acceptances of one offer at
\* most one succeeds.
C21_NotActiveRejected ==
  [][/\ \A c \in Calls :
          Answered(c, "409 not active") =>
            /\ rideOffer[acc'[c].offerId].status # "SENT"
            /\ UNCHANGED <<rideOffer, rideRequest, driver>>
     /\ \A c1, c2 \in Calls :
          (/\ acc'[c1].offerId = acc'[c2].offerId
           /\ acc'[c1].result = "200"
           /\ acc'[c2].result = "200") => c1 = c2]_vars

\* C21: the same offer was accepted twice and both calls were answered 200
C21_SameOfferAcceptedTwice ==
  \E c1, c2 \in Calls :
    /\ c1 # c2
    /\ acc[c1].offerId = acc[c2].offerId
    /\ acc[c1].driverId = acc[c2].driverId
    /\ acc[c1].result = "200"
    /\ acc[c2].result = "200"

\* C22: an acceptance of a SENT, unexpired offer is answered Conflict
\* ("already taken") when its ride has a driver and Conflict ("not
\* dispatchable") when its ride is FAILED, CANCELED or COMPLETED, and the
\* rejected call changes no ride, driver or offer; of two racing acceptances
\* of one ride the later one is rejected as "already taken".
C22_TakenOrClosedRejected ==
  [][/\ \A c \in Calls :
          LET ride == rideRequest[rideOffer[acc'[c].offerId].rideRequestId]
          IN /\ Answered(c, "409 taken") =>
                  /\ ride.driverId # NoDriver
                  /\ UNCHANGED <<rideOffer, rideRequest, driver>>
             /\ Answered(c, "409 not dispatchable") =>
                  /\ ride.status \in {"FAILED", "CANCELED", "COMPLETED"}
                  /\ UNCHANGED <<rideOffer, rideRequest, driver>>
     /\ \A c \in Calls :
          Answered(c, "200") =>
            rideRequest[rideOffer[acc'[c].offerId].rideRequestId].driverId = NoDriver]_vars

\* C22: the later of two racing acceptances is about to commit on a ride
\* that has a driver by now
C22_LoserAboutToCommit ==
  \E c \in Calls :
    /\ acc[c].pc = "tx_write"
    /\ rideRequest[rideOffer[acc[c].offerId].rideRequestId].driverId
         \notin {NoDriver, acc[c].driverId}

\* C23: an acceptance by a driver the offer is not addressed to is answered
\* "not found" and changes no offer, ride or driver; and every ACCEPTED offer
\* was accepted by a call of the driver it is addressed to.
C23_OnlyAddressee ==
  [][/\ \A c \in Calls :
          Answered(c, "404") =>
            /\ rideOffer[acc'[c].offerId].driverId # acc'[c].driverId
            /\ UNCHANGED <<rideOffer, rideRequest, driver>>
     /\ \A i \in DOMAIN rideOffer' :
          rideOffer'[i].status = "ACCEPTED" =>
            \E c \in Calls : /\ acc'[c].result = "200"
                             /\ acc'[c].offerId = i
                             /\ acc'[c].driverId = rideOffer'[i].driverId]_vars

\* C23: a driver's acceptance of another driver's SENT offer was answered
\* "not found" and the offer is still SENT
C23_WrongDriverNotFound ==
  \E c \in Calls :
    /\ acc[c].result = "404"
    /\ rideOffer[acc[c].offerId].driverId # acc[c].driverId
    /\ rideOffer[acc[c].offerId].status = "SENT"

\* ------------------------------------------------------------------- polls
\* C24: the active-offers poll of a driver first sets every overdue SENT
\* offer of that driver to EXPIRED and returns only offers that are the
\* caller's, SENT and with expiresAt > now, at most 20; offers of other
\* drivers are neither returned nor modified.
C24_PollSweepsAndReturnsOwn ==
  [][\A d \in Drivers :
       DriversOffers(d) =>
         /\ \A i \in OfferIds :
              IF /\ rideOffer[i].driverId = d
                 /\ rideOffer[i].status = "SENT"
                 /\ Due(rideOffer[i].expiresAt)
                THEN rideOffer'[i].status = "EXPIRED"
                ELSE rideOffer'[i] = rideOffer[i]
         /\ \A i \in res'.offers :
              /\ rideOffer'[i].driverId = d
              /\ rideOffer'[i].status = "SENT"
              /\ rideOffer'[i].expiresAt > 0
         /\ Cardinality(res'.offers) <= 20]_vars

\* C24: a poll has just been answered with an empty list, having swept the
\* caller's overdue offer before the phase-end timer of the ride fired
C24_PollSweptOverdue ==
  /\ res.route = "/drivers/offers"
  /\ res.offers = {}
  /\ \E i \in OfferIds :
       /\ rideOffer[i].status = "EXPIRED"
       /\ matcher[rideOffer[i].rideRequestId].pc = "timer"
       /\ rideRequest[rideOffer[i].rideRequestId].driverId = NoDriver

\* C25: an offer's status is terminal once it is not SENT: ACCEPTED,
\* EXPIRED and REJECTED offers never change status again.
C25_OfferStatusTerminal ==
  [][\A i \in OfferIds :
       rideOffer[i].status # "SENT" =>
         rideOffer'[i].status = rideOffer[i].status]_vars

\* C25: an acceptance is about to commit on an offer that stopped being
\* SENT after the acceptance read it
C25_CommitOnClosedOffer ==
  \E c \in Calls :
    /\ acc[c].pc = "tx_write"
    /\ rideOffer[acc[c].offerId].status # "SENT"

\* ------------------------------------------------------------ ride creation
\* C26: creating a ride with a valid pickup creates a row with status
\* SEARCHING, phase 1, searchRadiusKm 5, no driver and no expiresAt, starts
\* exactly one matcher run (phase 1) for that ride and for no other, and
\* answers 200 with the created row, before any step of the matcher.
C26_CreateStartsSearch ==
  [][(requests' # requests /\ res'.route = "/rides/create") =>
       \E r \in Rides :
         /\ rideRequest[r].status = "NONE"
         /\ rideRequest'[r].status = "SEARCHING"
         /\ rideRequest'[r].phase = 1
         /\ rideRequest'[r].searchRadiusKm = 5
         /\ rideRequest'[r].driverId = NoDriver
         /\ rideRequest'[r].expiresAt = NoTime
         /\ matcher[r].pc = "idle"
         /\ matcher'[r].pc = "start"
         /\ matcher'[r].phase = 1
         /\ \A q \in Rides \ {r} :
              /\ matcher'[q] = matcher[q]
              /\ rideRequest'[q] = rideRequest[q]
         /\ res'.code = 200
         /\ res'.ride = [id |-> r, status |-> "SEARCHING", phase |-> 1,
                         searchRadiusKm |-> 5, expiresAt |-> NoTime]
         /\ UNCHANGED <<rideOffer, driver>>]_vars

\* C26: a second ride has just been created and answered while the first
\* one has already failed
C26_SecondRideCreated ==
  /\ res.route = "/rides/create"
  /\ res.code = 200
  /\ res.ride.id = 2
  /\ rideRequest[2].status = "SEARCHING"
  /\ matcher[2].pc = "start"
  /\ rideRequest[1].status = "FAILED"

\* ------------------------------------------------------ candidate selection
\* C27: every driver the matcher selects for an offer has availability
\* ONLINE at the time of selection, and every offer it creates goes to a
\* selected driver; BUSY and OFFLINE drivers are never offered a ride,
\* whatever isOnline says.
C27_OffersOnlyToOnline ==
  [][\A r \in Rides :
       /\ \A d \in matcher'[r].chosen \ matcher[r].chosen :
            driver[d].availability = "ONLINE"
       /\ \A i \in DOMAIN rideOffer' \ DOMAIN rideOffer :
            rideOffer'[i].rideRequestId = r =>
              rideOffer'[i].driverId \in matcher[r].chosen]_vars

\* C27: after one driver request and one ride creation, a SENT offer is
\* addressed to a driver whose availability never left OFFLINE
C27_OfferToOfflineDriver ==
  /\ requests = 2
  /\ \E i \in OfferIds :
       /\ rideOffer[i].status = "SENT"
       /\ driver[rideOffer[i].driverId].availability = "OFFLINE"
       /\ driver[rideOffer[i].driverId].isOnline

\* C28: for a ride with pickup coordinates, phase P selects, and then offers
\* the ride to, only drivers that have a location within the radius of P
\* (5, 5, 10 km) of the pickup; so a driver farther than 5 km is offered the
\* ride in phase 3 only, and a driver with no location never; the offers
\* carry the expiry computed at selection, 15, 7 or 12 s ahead. For a ride without pickup coordinates every driver with
\* availability ONLINE is selected, wherever it is.
C28_RadiusFilter ==
  [][\A r \in Rides :
       /\ (matcher[r].pc = "query" /\ matcher'[r].pc # "query") =>
            \A d \in Drivers :
              IF rideRequest[r].pickupLat # NoLoc
                THEN d \in matcher'[r].chosen =>
                       /\ driver[d].lat # NoLoc
                       /\ distanceKm(rideRequest[r].pickupLat, driver[d].lat)
                            <= (IF matcher[r].phase = 3 THEN 10 ELSE 5)
                ELSE driver[d].availability = "ONLINE" =>
                       d \in matcher'[r].chosen
       /\ (matcher[r].pc = "query" /\ matcher'[r].chosen # {}) =>
            matcher'[r].expiresAt = (IF matcher[r].phase = 1 THEN 15
                                     ELSE IF matcher[r].phase = 2 THEN 7
                                     ELSE 12)
       /\ \A i \in DOMAIN rideOffer' \ DOMAIN rideOffer :
            (/\ rideOffer'[i].rideRequestId = r
             /\ rideRequest[r].pickupLat # NoLoc) =>
              LET d == rideOffer'[i].driverId
              IN /\ d \in matcher[r].chosen
                 /\ driver[d].lat # NoLoc
                 /\ distanceKm(rideRequest[r].pickupLat, driver[d].lat) > 5 =>
                      /\ distanceKm(rideRequest[r].pickupLat, driver[d].lat) <= 10
                      /\ matcher[r].phase = 3
                 /\ rideOffer'[i].expiresAt = matcher[r].expiresAt]_vars

\* C28: the driver 8 km from the pickup holds the only offer of a located
\* ride, made in phase 3 with 12 s to live
C28_FarDriverOfferedInPhase3 ==
  \E r \in Rides :
    /\ rideRequest[r].pickupLat # NoLoc
    /\ rideRequest[r].phase = 3
    /\ \E i \in OfferIds :
         /\ rideOffer[i].rideRequestId = r
         /\ rideOffer[i].driverId = 2
         /\ rideOffer[i].status = "SENT"
         /\ rideOffer[i].expiresAt = 12
         /\ distanceKm(rideRequest[r].pickupLat, driver[2].lat) = 8
         /\ \A j \in OfferIds : rideOffer[j].rideRequestId = r => j = i

\* ------------------------------------------------------------------ phases
\* C29: when the matcher runs phase P on a ride that is still dispatchable,
\* the ride carries phase = P, searchRadiusKm = radius(P) and an expiresAt
\* TTL(P) ahead from the moment candidates are selected, whether or not a
\* candidate is found.
C29_PhasePersistedBeforeSelection ==
  [][\A r \in Rides :
       (matcher[r].pc = "query" /\ matcher'[r].pc # "query") =>
         /\ rideRequest'[r].phase = matcher[r].phase
         /\ rideRequest'[r].searchRadiusKm =
              (IF matcher[r].phase = 3 THEN 10 ELSE 5)
         /\ rideRequest'[r].expiresAt =
              (IF matcher[r].phase = 1 THEN 15
               ELSE IF matcher[r].phase = 2 THEN 7 ELSE 12)]_vars

\* C29: a ride failed after three phases without a candidate still shows the
\* radius of its creation
C29_FailedWithFirstRadius ==
  \E r \in Rides :
    /\ rideRequest[r].status = "FAILED"
    /\ rideRequest[r].phase = 3
    /\ rideRequest[r].searchRadiusKm = 5
    /\ \A i \in OfferIds : rideOffer[i].rideRequestId # r

\* C30: a phase P that creates no new offer arms no timer: for P < 3 the
\* matcher goes straight to the start of phase P+1, for P = 3 it sets the
\* ride to FAILED with expiresAt null and stops. A timer is armed only after
\* a phase that created at least one offer.
C30_EmptyPhaseNoTimer ==
  [][\A r \in Rides :
       LET empty == \/ /\ matcher[r].pc = "query"
                       /\ matcher'[r].pc # "query"
                       /\ matcher'[r].chosen = {}
                    \/ /\ matcher[r].pc = "update"
                       /\ matcher'[r].pc # "update"
                       /\ matcher[r].count = 0
       IN /\ empty =>
               /\ matcher'[r].due = NoTime
               /\ rideOffer' = rideOffer
               /\ IF matcher[r].phase < 3
                    THEN /\ matcher'[r].pc = "start"
                         /\ matcher'[r].phase = matcher[r].phase + 1
                    ELSE matcher'[r].pc = "fail"
          /\ (matcher[r].pc = "createMany" /\ matcher'[r].pc = "update") =>
               matcher'[r].count = Len(rideOffer') - Len(rideOffer)
          /\ (matcher[r].pc # "timer" /\ matcher'[r].pc = "timer") =>
               /\ matcher[r].pc = "update"
               /\ matcher[r].count > 0
          /\ (matcher[r].pc = "fail" /\ matcher'[r].pc # "fail") =>
               /\ rideRequest'[r].status = "FAILED"
               /\ rideRequest'[r].expiresAt = NoTime
               /\ matcher'[r].pc = "idle"]_vars

\* C30: with no driver ever a candidate, the only request made created a
\* ride that failed in phase 3 with no offer, no timer and no expiresAt
C30_FailedThroughEmptyPhases ==
  /\ requests = 1
  /\ \A d \in Drivers : driver[d].availability = "OFFLINE" /\ ~driver[d].isOnline
  /\ rideOffer = <<>>
  /\ rideRequest[1].status = "FAILED"
  /\ rideRequest[1].phase = 3
  /\ rideRequest[1].expiresAt = NoTime
  /\ matcher[1].pc = "idle"
  /\ ~matcher[1].cb

\* ----------------------------------------------------------- matcher chain
\* C31: the matcher sets a ride to FAILED only from status SEARCHING, only
\* while the ride has no driver and only when its phase is 3; and no offer
\* is created for a ride that is FAILED.
C31_FailedOnlyFromSearchingPhase3 ==
  [][\A r \in Rides :
       /\ (matcher[r].pc = "fail" /\ matcher'[r].pc # "fail") =>
            /\ rideRequest[r].status = "SEARCHING"
            /\ rideRequest[r].driverId = NoDriver
            /\ rideRequest[r].phase = 3
       /\ rideRequest[r].status = "FAILED" =>
            \A i \in DOMAIN rideOffer' \ DOMAIN rideOffer :
              rideOffer'[i].rideRequestId # r]_vars

\* C31: the FAILED write of phase 3 is pending on a ride that an acceptance
\* has just assigned
C31_FailPendingOnAssignedRide ==
  \E r \in Rides :
    /\ matcher[r].pc = "fail"
    /\ rideRequest[r].status = "ACCEPTED"
    /\ rideRequest[r].driverId # NoDriver

\* C32: every offer of a phase is created before the phase-end timer of that
\* phase is armed: no offer is created for a ride whose timer is pending,
\* and the step that arms the timer creates none; the timer is armed only
\* for a phase whose createMany inserted at least one offer.
C32_OffersBeforeTimer ==
  [][\A r \in Rides :
       /\ (matcher[r].pc = "timer" \/ matcher'[r].pc = "timer") =>
            \A i \in DOMAIN rideOffer' \ DOMAIN rideOffer :
              rideOffer'[i].rideRequestId # r
       /\ (matcher[r].pc # "timer" /\ matcher'[r].pc = "timer") =>
            /\ matcher[r].count > 0
            /\ matcher'[r].phase = matcher[r].phase
            /\ Cardinality({i \in OfferIds :
                 /\ rideOffer[i].rideRequestId = r
                 /\ rideOffer[i].expiresAt = matcher[r].expiresAt})
                   >= matcher[r].count]_vars

\* C32: the timer of phase 2 is pending for a ride whose two drivers hold
\* one offer of phase 1 and one of phase 2
C32_TimerArmedAfterOffers ==
  \E r \in Rides :
    /\ matcher[r].pc = "timer"
    /\ matcher[r].phase = 2
    /\ matcher[r].due = 7
    /\ \E i, j \in OfferIds :
         /\ rideOffer[i].rideRequestId = r
         /\ rideOffer[j].rideRequestId = r
         /\ rideOffer[i].status = "EXPIRED"
         /\ rideOffer[j].status = "SENT"
         /\ rideOffer[j].expiresAt = 7

\* C33: a phase step or a phase-end callback that loads the ride and finds
\* it COMPLETED, CANCELED, FAILED or assigned stops: the ride row is left as
\* it is, no offer is created and the run of the matcher is over.
C33_StopsOnClosedRide ==
  [][\A r \in Rides :
       (/\ \/ matcher[r].pc = "start"
           \/ matcher[r].pc = "timer" /\ matcher[r].due <= 0
        /\ matcher'[r] # matcher[r]
        /\ \/ rideRequest[r].driverId # NoDriver
           \/ rideRequest[r].status \in {"COMPLETED", "CANCELED", "FAILED"}) =>
         /\ matcher'[r] = IdleMatcher
         /\ rideRequest'[r] = rideRequest[r]
         /\ Len(rideOffer') = Len(rideOffer)]_vars

\* C33: after one driver request and one ride creation the matcher is idle
\* on a ride that is ACCEPTED and whose accepted offer has reached its
\* expiry: the callback found the ride assigned and stopped
C33_CallbackStoppedOnAssigned ==
  /\ requests = 2
  /\ \E r \in Rides :
       /\ matcher[r] = IdleMatcher
       /\ rideRequest[r].status = "ACCEPTED"
       /\ rideRequest[r].driverId # NoDriver
       /\ \E i \in OfferIds :
            /\ rideOffer[i].rideRequestId = r
            /\ rideOffer[i].status = "ACCEPTED"
            /\ rideOffer[i].expiresAt = 0

C35_IsOnlineMatchesAvailability ==
  \A d \in Drivers : driver[d].isOnline <=> (driver[d].availability = "ONLINE")

\* C35: a driver whose acceptance was answered 200 is BUSY with isOnline
\* still set
C35_BusyAndOnlineAfterAccept ==
  \E c \in Calls :
    /\ acc[c].result = "200"
    /\ driver[acc[c].driverId].availability = "BUSY"
    /\ driver[acc[c].driverId].isOnline

\* ------------------------------------------------------------ matcher runs
\* C36: a ride has one run of the matcher, started by the creation of the
\* ride and by nothing else; its phase-end timer is armed only by a phase
\* step of that run, while no timer of the ride is pending, and a pending
\* timer ends only by firing once it is due.
C36_OneRunPerRide ==
  [][\A r \in Rides :
       /\ (matcher[r].pc = "idle" /\ matcher'[r].pc # "idle") =>
            /\ rideRequest[r].status = "NONE"
            /\ rideRequest'[r].status = "SEARCHING"
            /\ matcher'[r].pc = "start"
            /\ matcher'[r].phase = 1
       /\ (/\ matcher[r].pc # "idle"
           /\ matcher'[r].pc = "start"
           /\ matcher'[r] # matcher[r]) =>
            /\ matcher'[r].phase = matcher[r].phase + 1
            /\ \/ matcher[r].pc \in {"query", "update"}
               \/ matcher[r].pc = "timer" /\ matcher[r].due <= 0
       /\ (matcher[r].pc # "timer" /\ matcher'[r].pc = "timer") =>
            matcher[r].pc = "update"
       /\ (matcher[r].pc = "timer" /\ matcher'[r].pc # "timer") =>
            /\ matcher[r].due <= 0
            /\ matcher'[r].pc \in {"idle", "start", "fail"}]_vars

\* C36: the timer of phase 3 is pending for a ride whose earlier offer was
\* swept when the previous timer fired
C36_TimerAfterPreviousTimer ==
  \E r \in Rides :
    /\ matcher[r].pc = "timer"
    /\ matcher[r].phase = 3
    /\ rideRequest[r].driverId = NoDriver
    /\ \E i, j \in OfferIds :
         /\ rideOffer[i].rideRequestId = r
         /\ rideOffer[j].rideRequestId = r
         /\ rideOffer[i].status = "EXPIRED"
         /\ rideOffer[i].acceptedAt = NoTime
         /\ rideOffer[j].status = "SENT"

\* C37: the run of the matcher for a ride goes through the phases in
\* strictly increasing order, each at most once: every step of the run
\* lowers a rank made of the phases left and the position in the phase, so
\* the run ends after finitely many steps; the phase kept on the ride never
\* decreases and stays in 1..3, and a timer is armed for the phase the ride
\* is in, hence at most three per ride.
C37_PhasesIncreaseAndEnd ==
  [][\A r \in Rides :
       LET pcRank(pc) == CASE pc = "idle" -> 0
                           [] pc = "fail" -> 1
                           [] pc = "timer" -> 2
                           [] pc = "update" -> 3
                           [] pc = "createMany" -> 4
                           [] pc = "query" -> 5
                           [] pc = "start" -> 6
           rank(m) == IF m.pc = "idle" THEN 0
                      ELSE (3 - m.phase) * 7 + pcRank(m.pc)
       IN /\ (/\ matcher[r].pc # "idle"
              /\ \/ matcher'[r].pc # matcher[r].pc
                 \/ matcher'[r].phase # matcher[r].phase) =>
               /\ rank(matcher'[r]) < rank(matcher[r])
               /\ matcher'[r].pc # "idle" =>
                    /\ matcher'[r].phase >= matcher[r].phase
                    /\ matcher'[r].phase \in 1..3
          /\ rideRequest[r].status # "NONE" =>
               /\ rideRequest'[r].phase >= rideRequest[r].phase
               /\ rideRequest'[r].phase \in 1..3
          /\ (matcher[r].pc # "timer" /\ matcher'[r].pc = "timer") =>
               /\ matcher'[r].phase = matcher[r].phase
               /\ rideRequest[r].phase = matcher[r].phase]_vars

\* C37: a run is over on a ride that failed in phase 3 after a timer of it
\* had fired on an offer nobody accepted
C37_RunEndedAfterTimers ==
  \E r \in Rides :
    /\ matcher[r] = IdleMatcher
    /\ rideRequest[r].status = "FAILED"
    /\ rideRequest[r].phase = 3
    /\ rideRequest[r].driverId = NoDriver
    /\ \E i \in OfferIds :
         /\ rideOffer[i].rideRequestId = r
         /\ rideOffer[i].status = "EXPIRED"

====
